---- MODULE Spec2Model ----
(***************************************************************************)
(* prometheus-push: pushing metrics to a Prometheus pushgateway.           *)
(*                                                                         *)
(* A MetricsPusher holds the job-root URL derived at construction, a       *)
(* ConvertMetrics implementation and a Push client.  A push operation      *)
(* runs metrics_from (collector variants only), create_push_details        *)
(* (validate, build_url, encoding) and then the Push client's push_all     *)
(* or push_add, which sends one HTTP request and classifies the response   *)
(* with handle_response.                                                   *)
(*                                                                         *)
(* Strings are sequences of one-character strings, so that the scans of    *)
(* validate() and of Url::join act on characters.                          *)
(***************************************************************************)
EXTENDS Integers, Sequences, FiniteSets, TLC

(***************************************************************************)
(* Bounds of the model.                                                    *)
(***************************************************************************)
MaxFamilies == 2
MaxGrouping == 2

(***************************************************************************)
(* Strings and generic helpers.                                            *)
(***************************************************************************)
None == [some |-> FALSE, v |-> <<>>]
Some(x) == [some |-> TRUE, v |-> x]

Range(s) == {s[i] : i \in 1..Len(s)}

Drop(s, n) == SubSeq(s, n + 1, Len(s))

Take(s, n) == SubSeq(s, 1, n)

RECURSIVE Flatten(_)
Flatten(ss) == IF ss = <<>> THEN <<>> ELSE Head(ss) \o Flatten(Tail(ss))

\* Position of the first element of s that lies in the set cs, or Len(s)+1.
RECURSIVE FirstIn(_, _, _)
FirstIn(s, cs, i) ==
    IF i > Len(s) THEN Len(s) + 1
    ELSE IF s[i] \in cs THEN i
    ELSE FirstIn(s, cs, i + 1)

\* str::contains('/')
contains(value, c) == \E i \in 1..Len(value) : value[i] = c

\* [&str]::join(sep)
RECURSIVE join(_, _)
join(parts, sep) ==
    IF parts = <<>> THEN <<>>
    ELSE IF Len(parts) = 1 THEN parts[1]
    ELSE parts[1] \o sep \o join(Tail(parts), sep)

\* All orders in which the keys of a set can be iterated.
Perms(S) ==
    {p \in [1..Cardinality(S) -> S] : \A i, j \in 1..Cardinality(S) : p[i] = p[j] => i = j}

(***************************************************************************)
(* Url (the url crate): a parsed URL and relative-reference resolution.    *)
(***************************************************************************)
Alpha ==
    {"a", "b", "c", "e", "g", "h", "i", "j", "k", "m", "o", "p", "r", "s", "t", "v", "w", "x"}
SchemeChars == Alpha \cup {"+", "-", "."}
SpecialSchemes == {<<"h", "t", "t", "p">>, <<"w", "s">>}

Url(scheme, host, opaque, path, query, fragment) ==
    [scheme |-> scheme, host |-> host, opaque |-> opaque, path |-> path,
     query |-> query, fragment |-> fragment]

UrlOk(u) == [ok |-> TRUE, url |-> u, err |-> "none"]
UrlErr(e) == [ok |-> FALSE, url |-> <<>>, err |-> e]

\* Leading and trailing spaces of the input are ignored by the parser.
RECURSIVE TrimLeft(_)
TrimLeft(s) == IF s # <<>> /\ Head(s) = " " THEN TrimLeft(Tail(s)) ELSE s

RECURSIVE TrimRight(_)
TrimRight(s) ==
    IF s # <<>> /\ s[Len(s)] = " " THEN TrimRight(Take(s, Len(s) - 1)) ELSE s

Trim(s) == TrimRight(TrimLeft(s))

\* Percent-encoding of the characters of the model's alphabet.
RECURSIVE PercentEncode(_)
PercentEncode(s) ==
    IF s = <<>> THEN <<>>
    ELSE (IF Head(s) = " " THEN <<"%", "2", "0">> ELSE <<Head(s)>>)
         \o PercentEncode(Tail(s))

ShortenPath(path) == IF path = <<>> THEN <<>> ELSE Take(path, Len(path) - 1)

\* The path state: input holds no '?' and no '#'.  Segments are split at
\* '/'; ".." removes the last segment, "." is skipped, and either one as the
\* last segment leaves an empty segment behind.
RECURSIVE ParsePath(_, _)
PathStep(input, path, cut, seg) ==
    IF cut > Len(input)
      THEN (IF seg = <<".", ".">> THEN Append(ShortenPath(path), <<>>)
            ELSE IF seg = <<".">> THEN Append(path, <<>>)
            ELSE Append(path, PercentEncode(seg)))
    ELSE ParsePath(Drop(input, cut),
                   IF seg = <<".", ".">> THEN ShortenPath(path)
                   ELSE IF seg = <<".">> THEN path
                   ELSE Append(path, PercentEncode(seg)))

PathSegment(input, path, cut) == PathStep(input, path, cut, Take(input, cut - 1))

ParsePath(input, path) == PathSegment(input, path, FirstIn(input, {"/"}, 1))

\* Splits "path?query#fragment" at the first '#' (position h) and '?'.
SplitAt(input, h, q) ==
    [path |-> Take(input, (IF q < h THEN q ELSE h) - 1),
     query |-> IF q >= h THEN None ELSE Some(PercentEncode(SubSeq(input, q + 1, h - 1))),
     fragment |-> IF h > Len(input) THEN None ELSE Some(PercentEncode(Drop(input, h)))]

SplitRef(input) == SplitAt(input, FirstIn(input, {"#"}, 1), FirstIn(input, {"?"}, 1))

RECURSIVE SkipSlashes(_)
SkipSlashes(s) == IF s # <<>> /\ Head(s) = "/" THEN SkipSlashes(Tail(s)) ELSE s

\* An authority followed by a path; r is the split reference, cut the
\* position of the first '/' of its path part.
Authority(scheme, r, cut) ==
    IF cut = 1 /\ scheme \in SpecialSchemes
      THEN UrlErr("EmptyHost")
    ELSE IF \E i \in 1..(cut - 1) : r.path[i] \in {":", " "}
      THEN UrlErr("InvalidDomainCharacter")
    ELSE UrlOk(Url(scheme, Some(Take(r.path, cut - 1)), FALSE,
                   ParsePath(Drop(r.path, cut), <<>>), r.query, r.fragment))

AuthorityOf(scheme, r) == Authority(scheme, r, FirstIn(r.path, {"/"}, 1))

ParseAuthority(scheme, input) == AuthorityOf(scheme, SplitRef(input))

\* A reference without a scheme, resolved against base; r is the split input.
Relative(base, input, r) ==
    IF input = <<>>
      THEN UrlOk(Url(base.scheme, base.host, FALSE, base.path, base.query, None))
    ELSE IF Head(input) = "#"
      THEN UrlOk(Url(base.scheme, base.host, FALSE, base.path, base.query, r.fragment))
    ELSE IF Head(input) = "?"
      THEN UrlOk(Url(base.scheme, base.host, FALSE, base.path, r.query, r.fragment))
    ELSE IF Len(input) >= 2 /\ input[2] = "/" /\ Head(input) = "/"
      THEN AuthorityOf(base.scheme, [r EXCEPT !.path = Drop(@, 2)])
    ELSE UrlOk(Url(base.scheme, base.host, FALSE,
                   IF Head(input) = "/" THEN ParsePath(Tail(r.path), <<>>)
                   ELSE ParsePath(r.path, ShortenPath(base.path)),
                   r.query, r.fragment))

ParseRelative(base, input) == Relative(base, input, SplitRef(input))

\* Length of the scheme when input starts with "scheme:", 0 otherwise; c is
\* the position of the first ':'.
SchemeUpTo(input, c) ==
    IF /\ c <= Len(input)
       /\ c > 1
       /\ input[1] \in Alpha
       /\ \A i \in 1..(c - 1) : input[i] \in SchemeChars
    THEN c - 1 ELSE 0

SchemeEnd(input) == SchemeUpTo(input, FirstIn(input, {":"}, 1))

\* A reference "scheme:rest" whose scheme is not special; r is the split rest.
NonSpecial(scheme, rest, r) ==
    IF Len(rest) >= 2 /\ rest[1] = "/" /\ rest[2] = "/"
      THEN AuthorityOf(scheme, [r EXCEPT !.path = Drop(@, 2)])
    ELSE IF rest # <<>> /\ Head(rest) = "/"
      THEN UrlOk(Url(scheme, None, FALSE, ParsePath(Tail(r.path), <<>>),
                     r.query, r.fragment))
    ELSE UrlOk(Url(scheme, None, TRUE, <<r.path>>, r.query, r.fragment))

\* A reference "scheme:rest".
WithScheme(base, scheme, rest) ==
    IF scheme \notin SpecialSchemes
      THEN NonSpecial(scheme, rest, SplitRef(rest))
    ELSE IF scheme = base.scheme /\ ~(Len(rest) >= 2 /\ rest[1] = "/" /\ rest[2] = "/")
      THEN ParseRelative(base, rest)
    ELSE ParseAuthority(scheme, SkipSlashes(rest))

\* The trimmed input, n the length of its scheme.
JoinFrom(base, input, n) ==
    IF n = 0 THEN ParseRelative(base, input)
    ELSE WithScheme(base, Take(input, n), Drop(input, n + 1))

JoinTrimmed(base, input) == JoinFrom(base, input, SchemeEnd(input))

\* Url::join(&self, input): base is a URL with a special scheme.
Join(base, raw) == JoinTrimmed(base, Trim(raw))

\* Url::path(): the path as a string.
RECURSIVE PathString(_)
PathString(segments) ==
    IF segments = <<>> THEN <<>>
    ELSE <<"/">> \o Head(segments) \o PathString(Tail(segments))

path(u) == IF u.opaque THEN u.path[1] ELSE PathString(u.path)


\* Url::as_str(): the serialization of the URL.
as_str(u) ==
    u.scheme \o <<":">>
    \o (IF u.host.some THEN <<"/", "/">> \o u.host.v ELSE <<>>)
    \o path(u)
    \o (IF u.query.some THEN <<"?">> \o u.query.v ELSE <<>>)
    \o (IF u.fragment.some THEN <<"#">> \o u.fragment.v ELSE <<>>)

(***************************************************************************)
(* error.rs: PushMetricsError and Result.                                  *)
(***************************************************************************)
NoError == [kind |-> "none", message |-> <<>>]
Ok(v) == [ok |-> TRUE, v |-> v, err |-> NoError]
Err(e) == [ok |-> FALSE, v |-> <<>>, err |-> e]

LabelTypeJob == [type |-> "Job", label |-> <<>>]
LabelTypeGrouping(label) == [type |-> "Grouping", label |-> label]

\* LabelType::message
message(label_type) ==
    IF label_type.type = "Job" THEN <<"a job label">>
    ELSE <<"grouping label with value '">> \o label_type.label \o <<"'">>

\* PushMetricsError::contains_label
contains_label(metric, label_type) ==
    [kind |-> "AlreadyContainsLabel",
     message |-> <<"pushed metric ">> \o metric \o <<" already contains ">>
                 \o message(label_type)]

\* PushMetricsError::slash_in_name
slash_in_name(value) ==
    [kind |-> "SlashInName",
     message |-> <<"labels and job name must not contain '/': '">> \o value \o <<"'">>]

\* PushMetricsError::response
response(status_code, url) ==
    [kind |-> "Response",
     message |-> <<"unexpected status code ", status_code, " while pushing to ">>
                 \o as_str(url)]

\* impl From<url::ParseError>, From<prometheus::Error>, From<reqwest::Error>
FromUrlError(e) == [kind |-> "Url", message |-> <<e>>]
FromPrometheusError(e) == [kind |-> "Prometheus", message |-> <<e>>]
FromReqwestError(e) == [kind |-> "Reqwest", message |-> <<e>>]

(***************************************************************************)
(* utils.rs: the job-root URL, validate and build_url.                     *)
(***************************************************************************)
METRICS_JOB_PATH ==
    <<"m", "e", "t", "r", "i", "c", "s", "/", "j", "o", "b", "/">>

\* Ok(url.join(..)?)
FromJoin(joined) ==
    IF joined.ok THEN Ok(joined.url) ELSE Err(FromUrlError(joined.err))

create_metrics_job_url(url) == FromJoin(Join(url, METRICS_JOB_PATH))

\* validate without the scan for '/'.
validate_unchecked(value) == Ok(value)

validate(value) ==
    IF contains(value, "/") THEN Err(slash_in_name(value)) ELSE Ok(value)

\* The loop of build_url over the grouping map; order is the order in which
\* the HashMap yields its keys.
\* The loop reporting the label name when the label value is rejected.
\* Variant: the value of a pair is validated before its name.
RECURSIVE UrlParams_value_first(_, _, _, _)
UrlParams_value_first(grouping, order, i, url_params) ==
    IF i > Len(order) THEN Ok(url_params)
    ELSE LET label_name == order[i]
             label_value == grouping[label_name]
         IN IF ~validate(label_value).ok THEN validate(label_value)
            ELSE IF ~validate(label_name).ok THEN validate(label_name)
            ELSE UrlParams_value_first(grouping, order, i + 1,
                                       url_params \o <<label_name, label_value>>)

RECURSIVE UrlParams_cites_name(_, _, _, _)
UrlParams_cites_name(grouping, order, i, url_params) ==
    IF i > Len(order) THEN Ok(url_params)
    ELSE LET label_name == order[i]
             label_value == grouping[label_name]
         IN IF ~validate(label_name).ok THEN validate(label_name)
            ELSE IF ~validate(label_value).ok THEN Err(slash_in_name(label_name))
            ELSE UrlParams_cites_name(grouping, order, i + 1,
                                      url_params \o <<label_name, label_value>>)

RECURSIVE UrlParams(_, _, _, _)
UrlParams(grouping, order, i, url_params) ==
    IF i > Len(order) THEN Ok(url_params)
    ELSE LET label_name == order[i]
             label_value == grouping[label_name]
         IN IF ~validate(label_name).ok THEN validate(label_name)
            ELSE IF ~validate(label_value).ok THEN validate(label_value)
            ELSE UrlParams(grouping, order, i + 1,
                           url_params \o <<label_name, label_value>>)

JoinParams(url, url_params) ==
    IF ~url_params.ok THEN url_params
    ELSE FromJoin(Join(url, join(url_params.v, <<"/">>)))

build_url(url, job, grouping, order) ==
    JoinParams(url, UrlParams(grouping, order, 1, <<job>>))

(***************************************************************************)
(* Metric families of the prometheus crate and its ProtobufEncoder.        *)
(***************************************************************************)
LABEL_NAME_JOB == <<"j", "o", "b">>
PROTOBUF_FORMAT == "application/vnd.google.protobuf; proto=io.prometheus.client.MetricFamily; encoding=delimited"
TEXT_FORMAT == "text/plain"

LabelPair(name) == [name |-> name, value |-> <<"x">>]
Metric(labels) == [label |-> labels]
MetricFamily(name, metric) == [name |-> name, metric |-> metric]

\* ProtobufEncoder::encode(&[mf], &mut buf): a family without metrics is
\* rejected, otherwise its length-delimited message is appended.
encode(metric_family, buf) ==
    IF metric_family.metric = <<>>
      THEN Err(FromPrometheusError("MetricFamily has no metrics"))
    ELSE Ok(buf \o <<[delimited |-> metric_family]>>)

\* The label pairs of the family in the order the loops over get_metric()
\* and get_label() visit them.
AllLabels(metric_family) ==
    Flatten([i \in 1..Len(metric_family.metric) |-> metric_family.metric[i].label])

\* Position of the first label pair that is the job label or a key of
\* grouping, or Len(labels)+1.
RECURSIVE FirstHit(_, _, _)
FirstHit(labels, grouping, i) ==
    IF i > Len(labels) THEN Len(labels) + 1
    ELSE IF labels[i].name = LABEL_NAME_JOB \/ labels[i].name \in DOMAIN grouping THEN i
    ELSE FirstHit(labels, grouping, i + 1)

\* The error of the label checks for the label pair at position first.
ConflictAt(metric_family, labels, first) ==
    IF first > Len(labels) THEN None
    ELSE IF labels[first].name = LABEL_NAME_JOB
      THEN Some(contains_label(metric_family.name, LabelTypeJob))
    ELSE Some(contains_label(metric_family.name, LabelTypeGrouping(labels[first].name)))

\* Variant: the grouping check comes before the job check.
ConflictIn_grouping_first(metric_family, labels, grouping) ==
    IF FirstHit(labels, grouping, 1) > Len(labels) THEN None
    ELSE IF labels[FirstHit(labels, grouping, 1)].name \in DOMAIN grouping
      THEN Some(contains_label(metric_family.name,
                               LabelTypeGrouping(labels[FirstHit(labels, grouping, 1)].name)))
    ELSE Some(contains_label(metric_family.name, LabelTypeJob))

ConflictIn(metric_family, labels, grouping) ==
    ConflictAt(metric_family, labels, FirstHit(labels, grouping, 1))

\* Variant: the keys of the grouping are checked against the job label too.
FirstConflict_checks_grouping_keys(metric_family, grouping) ==
    IF LABEL_NAME_JOB \in DOMAIN grouping
      THEN Some(contains_label(metric_family.name, LabelTypeJob))
    ELSE ConflictIn(metric_family, AllLabels(metric_family), grouping)

FirstConflict(metric_family, grouping) ==
    ConflictIn(metric_family, AllLabels(metric_family), grouping)

\* PrometheusMetricsConverter::encode_metrics.  trace collects the calls
\* made on the encoder.  One family: its label checks, then its encoding.
RECURSIVE encode_metrics(_, _, _, _, _)
\* Variant: the check goes on after a conflict and reports the last one.
encode_family_reports_last(metric_families, grouping, i, trace, conflict, encoded) ==
    IF conflict.some
      THEN IF encode_metrics(metric_families, grouping, i + 1, <<>>,
                             trace).result.err.kind = "AlreadyContainsLabel"
             THEN encode_metrics(metric_families, grouping, i + 1, <<>>, trace)
           ELSE [result |-> Err(conflict.v), trace |-> trace]
    ELSE IF ~encoded.ok
      THEN [result |-> encoded, trace |-> Append(trace, "encode")]
    ELSE encode_metrics(metric_families, grouping, i + 1, encoded.v,
                        Append(trace, "encode"))

\* Variant: a family with a conflicting label is left out and the rest is sent.
encode_family_skips_conflict(metric_families, grouping, i, trace, conflict, encoded) ==
    IF conflict.some
      THEN encode_metrics(metric_families, grouping, i + 1,
                          Take(encoded.v, Len(encoded.v) - 1), trace)
    ELSE IF ~encoded.ok
      THEN [result |-> encoded, trace |-> Append(trace, "encode")]
    ELSE encode_metrics(metric_families, grouping, i + 1, encoded.v,
                        Append(trace, "encode"))

encode_family(metric_families, grouping, i, trace, conflict, encoded) ==
    IF conflict.some
      THEN [result |-> Err(conflict.v), trace |-> trace]
    ELSE IF ~encoded.ok
      THEN [result |-> encoded, trace |-> Append(trace, "encode")]
    ELSE encode_metrics(metric_families, grouping, i + 1, encoded.v,
                        Append(trace, "encode"))

encode_metrics(metric_families, grouping, i, encoded_metrics, trace) ==
    IF i > Len(metric_families)
      THEN [result |-> Ok(encoded_metrics), trace |-> trace]
    ELSE encode_family(metric_families, grouping, i, trace,
                       FirstConflict(metric_families[i], grouping),
                       encode(metric_families[i], encoded_metrics))

(***************************************************************************)
(* prometheus_crate.rs: PrometheusMetricsConverter.                        *)
(***************************************************************************)
\* A collector handle: the metric family it collects; fmt_error tells that
\* its text encoding fails (prometheus-client collectors only).
Collector(family, fmt_error) == [family |-> family, fmt_error |-> fmt_error]

\* Family names in the order Registry::gather sorts them.
SortedNames == << <<"m", "a">>, <<"m", "b">>, <<"m", "c">>, <<"m", "e">> >>

\* Registry::gather: families sorted by name, empty families pruned.
gather(registered) ==
    LET byName == [i \in 1..Len(SortedNames) |->
                     SelectSeq(registered, LAMBDA c : c.family.name = SortedNames[i])]
        sorted == Flatten(byName)
    IN SelectSeq([i \in 1..Len(sorted) |-> sorted[i].family],
                 LAMBDA mf : mf.metric # <<>>)

\* Registry::register fails for a collector that is already registered.
RECURSIVE register_all(_, _)
register_all(collectors, i) ==
    IF i > Len(collectors) THEN Ok(collectors)
    ELSE IF \E j \in 1..(i - 1) : collectors[j].family.name = collectors[i].family.name
      THEN Err(FromPrometheusError("AlreadyReg"))
    ELSE register_all(collectors, i + 1)

\* trace collects the calls made on the registry.
Gathered(registry) ==
    IF registry.ok
      THEN [result |-> Ok(gather(registry.v)), trace |-> <<"register", "gather">>]
    ELSE [result |-> registry, trace |-> <<"register">>]

PrometheusMetricsConverter_metrics_from(collectors) ==
    Gathered(register_all(collectors, 1))

\* The `?` chain of create_push_details over the results of its three calls.
PushDetails(job_ok, built, enc, content_type) ==
    IF ~job_ok.ok
      THEN [result |-> job_ok, trace |-> <<"validate">>]
    ELSE IF ~built.ok
      THEN [result |-> built, trace |-> <<"validate", "build_url">>]
    ELSE IF ~enc.result.ok
      THEN [result |-> enc.result, trace |-> <<"validate", "build_url">> \o enc.trace]
    ELSE [result |-> Ok([url |-> built.v, body |-> enc.result.v,
                         content_type |-> content_type]),
          trace |-> <<"validate", "build_url">> \o enc.trace]

BuildValidated(url, job_ok, grouping, order) ==
    IF job_ok.ok THEN build_url(url, job_ok.v, grouping, order) ELSE job_ok

PushDetailsFor(job_ok, url, grouping, order, enc, content_type) ==
    PushDetails(job_ok, BuildValidated(url, job_ok, grouping, order), enc, content_type)

PrometheusMetricsConverter_create_push_details(job, url, grouping, order, metric_families) ==
    PushDetailsFor(validate(job), url, grouping, order,
                   encode_metrics(metric_families, grouping, 1, <<>>, <<"encode_metrics">>),
                   PROTOBUF_FORMAT)

(***************************************************************************)
(* prometheus_client_crate.rs: PrometheusClientMetricsConverter.           *)
(***************************************************************************)
\* prometheus_client::encoding::text::encode: one descriptor line per
\* family, one sample line per metric, then the end-of-file line.
TextFamily(mf) ==
    <<[line |-> "# TYPE", name |-> mf.name, label |-> <<>>]>>
    \o [i \in 1..Len(mf.metric) |->
          [line |-> "sample", name |-> mf.name, label |-> mf.metric[i].label]]

TextEncode(families) ==
    Flatten([i \in 1..Len(families) |-> TextFamily(families[i])])
    \o <<[line |-> "# EOF", name |-> <<>>, label |-> <<>>]>>

\* String::into_bytes hands over the buffer of the string.
into_bytes(string) == string

\* The registry is encoded to text here, in metrics_from.
PrometheusClientMetricsConverter_metrics_from(collectors) ==
    IF \E i \in 1..Len(collectors) : collectors[i].fmt_error
      THEN [result |-> Err([kind |-> "Fmt", message |-> <<"fmt::Error">>]),
            trace |-> <<"register_collector", "text_encode">>]
    ELSE [result |-> Ok(TextEncode([i \in 1..Len(collectors) |-> collectors[i].family])),
          trace |-> <<"register_collector", "text_encode">>]

PrometheusClientMetricsConverter_create_push_details(job, url, grouping, order, metric_families) ==
    PushDetailsFor(validate(job), url, grouping, order,
                   [result |-> Ok(into_bytes(metric_families)), trace |-> <<"into_bytes">>],
                   TEXT_FORMAT)

(***************************************************************************)
(* helper.rs: the earlier variant of the push details (helper::create).    *)
(* Its errors are PushMetricsError::Generic with a formatted message.      *)
(***************************************************************************)
Generic(text) == [kind |-> "Generic", message |-> text]

helper_validate_job(job) ==
    IF contains(job, "/")
      THEN Err(Generic(<<"job name must not contain '/': ">> \o job))
    ELSE Ok(job)

\* The loop of helper::build_url: only label_value is looked at.
RECURSIVE helper_UrlParams(_, _, _, _)
helper_UrlParams(grouping, order, i, url_params) ==
    IF i > Len(order) THEN Ok(url_params)
    ELSE IF contains(grouping[order[i]], "/")
      THEN Err(Generic(<<"value of grouping label ">> \o order[i]
                       \o <<" contains '/': ">> \o grouping[order[i]]))
    ELSE helper_UrlParams(grouping, order, i + 1,
                          url_params \o <<order[i], grouping[order[i]]>>)

helper_build_url(url, job, grouping, order) ==
    JoinParams(url, helper_UrlParams(grouping, order, 1, <<job>>))

\* The error of the label checks of helper::encode_metrics.
helper_ConflictAt(metric_family, labels, first) ==
    IF first > Len(labels) THEN None
    ELSE IF labels[first].name = LABEL_NAME_JOB
      THEN Some(Generic(<<"pushed metric ">> \o metric_family.name
                        \o <<" already contains a job label">>))
    ELSE Some(Generic(<<"pushed metric ">> \o metric_family.name
                      \o <<" already contains grouping label ">> \o labels[first].name))

helper_FirstConflict(metric_family, labels, grouping) ==
    helper_ConflictAt(metric_family, labels, FirstHit(labels, grouping, 1))

RECURSIVE helper_encode_metrics(_, _, _, _, _)
helper_encode_family(metric_families, grouping, i, trace, conflict, encoded) ==
    IF conflict.some
      THEN [result |-> Err(conflict.v), trace |-> trace]
    ELSE IF ~encoded.ok
      THEN [result |-> encoded, trace |-> Append(trace, "encode")]
    ELSE helper_encode_metrics(metric_families, grouping, i + 1, encoded.v,
                               Append(trace, "encode"))

helper_encode_metrics(metric_families, grouping, i, encoded_metrics, trace) ==
    IF i > Len(metric_families)
      THEN [result |-> Ok(encoded_metrics), trace |-> trace]
    ELSE helper_encode_family(metric_families, grouping, i, trace,
                              helper_FirstConflict(metric_families[i],
                                                   AllLabels(metric_families[i]), grouping),
                              encode(metric_families[i], encoded_metrics))

helper_metric_families_from(collectors) ==
    Gathered(register_all(collectors, 1))

helper_BuildValidated(url, job_ok, grouping, order) ==
    IF job_ok.ok THEN helper_build_url(url, job_ok.v, grouping, order) ELSE job_ok

helper_PushDetailsFor(job_ok, url, grouping, order, enc) ==
    PushDetails(job_ok, helper_BuildValidated(url, job_ok, grouping, order), enc,
                PROTOBUF_FORMAT)

helper_create(job, url, grouping, order, metric_families) ==
    helper_PushDetailsFor(helper_validate_job(job), url, grouping, order,
                          helper_encode_metrics(metric_families, grouping, 1, <<>>,
                                                <<"encode_metrics">>))

(***************************************************************************)
(* lib.rs: the ConvertMetrics trait, dispatched on the held converter.     *)
(* "helper" stands for a pusher built on helper.rs.                        *)
(***************************************************************************)
metrics_from(metrics_converter, collectors) ==
    IF metrics_converter = "PrometheusMetricsConverter"
      THEN PrometheusMetricsConverter_metrics_from(collectors)
    ELSE IF metrics_converter = "helper"
      THEN helper_metric_families_from(collectors)
    ELSE PrometheusClientMetricsConverter_metrics_from(collectors)

create_push_details(metrics_converter, job, url, grouping, order, metrics) ==
    IF metrics_converter = "PrometheusMetricsConverter"
      THEN PrometheusMetricsConverter_create_push_details(job, url, grouping, order, metrics)
    ELSE IF metrics_converter = "helper"
      THEN helper_create(job, url, grouping, order, metrics)
    ELSE PrometheusClientMetricsConverter_create_push_details(job, url, grouping, order, metrics)

(***************************************************************************)
(* utils.rs / with_reqwest.rs: the reference transport.                    *)
(***************************************************************************)
OK == 200
ACCEPTED == 202

\* Variant: every 2xx status counts as success.
handle_response_any_2xx(resp) ==
    IF resp.status \in 200..299 THEN Ok(<<>>)
    ELSE Err(response(resp.status, resp.url))

handle_response(resp) ==
    IF resp.status \in {ACCEPTED, OK} THEN Ok(<<>>)
    ELSE Err(response(resp.status, resp.url))

\* helper::handle_response
helper_handle_response(resp) ==
    IF resp.status \in {ACCEPTED, OK} THEN Ok(<<>>)
    ELSE Err(Generic(<<"unexpected status code ", resp.status, " while pushing to ">>
                     \o as_str(resp.url)))

\* PushClient::push_all / push_add build the request that is sent.
PushClient_push_all(url, body, content_type) ==
    [method |-> "PUT", url |-> url, content_type |-> content_type, body |-> body]

\* Variant: POST always declares text.
PushClient_push_add_as_text(url, body, content_type) ==
    [method |-> "POST", url |-> url, content_type |-> TEXT_FORMAT, body |-> body]

PushClient_push_add(url, body, content_type) ==
    [method |-> "POST", url |-> url, content_type |-> content_type, body |-> body]


(***************************************************************************)
(* Inputs of the model.                                                    *)
(***************************************************************************)
HTTP == <<"h", "t", "t", "p">>

\* The pushgateway address: "http://h/".
Endpoints == {Url(HTTP, Some(<<"h">>), FALSE, << <<>> >>, None, None)}

\* Addresses with a path: "http://h/", "http://h/p" and "http://h/p/".
AllEndpoints ==
    Endpoints \cup {Url(HTTP, Some(<<"h">>), FALSE, << <<"p">> >>, None, None),
                    Url(HTTP, Some(<<"h">>), FALSE, << <<"p">>, <<>> >>, None, None)}

\* The URL a redirected exchange ends at: "http://r/".
REDIRECTED == Url(HTTP, Some(<<"r">>), FALSE, << <<>> >>, None, None)

Converters == {"PrometheusMetricsConverter", "PrometheusClientMetricsConverter"}

\* Job names: "a", "a/b", "", "..", ".", "a:b", "a?b", "a#b", "ws:", "a b".
Jobs ==
    {<<"a">>, <<"a", "/", "b">>, <<>>, <<".", ".">>, <<".">>, <<"a", ":", "b">>,
     <<"a", "?", "b">>, <<"a", "#", "b">>, <<"w", "s", ":">>, <<"a", " ", "b">>}

LabelNames == {<<"k">>, LABEL_NAME_JOB, <<"k", "/">>}
LabelValues == {<<"v">>, <<"v", "/", "w">>}

Groupings ==
    UNION {[names -> LabelValues] :
             names \in {ns \in SUBSET LabelNames : Cardinality(ns) <= MaxGrouping}}

mf_plain == MetricFamily(<<"m", "a">>, <<Metric(<<LabelPair(<<"x">>)>>)>>)
mf_job == MetricFamily(<<"m", "b">>, <<Metric(<<LabelPair(<<"x">>), LabelPair(LABEL_NAME_JOB)>>)>>)
mf_grouping == MetricFamily(<<"m", "c">>, <<Metric(<<LabelPair(<<"k">>)>>)>>)
mf_empty == MetricFamily(<<"m", "e">>, <<>>)

Families == {mf_plain, mf_job, mf_grouping, mf_empty}

SeqsUpTo(S, n) == UNION {[1..m -> S] : m \in 0..n}

MetricSets == SeqsUpTo(Families, MaxFamilies)

Collectors ==
    SeqsUpTo({Collector(mf_plain, FALSE), Collector(mf_job, FALSE),
              Collector(mf_empty, FALSE), Collector(mf_plain, TRUE)}, MaxFamilies)

\* The metrics argument of push_all / push_add: a Vec<MetricFamily> for the
\* prometheus crate, the text of a registry for the prometheus-client crate.
Metrics(metrics_converter, metric_sets) ==
    IF metrics_converter = "PrometheusClientMetricsConverter"
      THEN {TextEncode(families) : families \in metric_sets}
    ELSE metric_sets

StatusCodes == {200, 201, 202, 500}

\* One task pushes at a time through the pusher.
Tasks == {1}

\* What the callers of the pusher pass and what the gateway answers.
AllInputs ==
    [jobs |-> Jobs, groupings |-> Groupings, metric_sets |-> MetricSets,
     collectors |-> Collectors, status_codes |-> StatusCodes,
     redirects |-> {REDIRECTED}, history |-> FALSE]

\* A few arguments, for runs in which pushes follow one another; how the
\* previous push ended is kept.
FewInputs ==
    [jobs |-> {<<"a">>, <<"a", "/", "b">>},
     groupings |-> {g \in Groupings :
                      Cardinality(DOMAIN g) <= 1 /\ \A n \in DOMAIN g : g[n] = <<"v">>},
     metric_sets |-> {<<>>, <<mf_plain>>, <<mf_grouping>>},
     collectors |-> {<<Collector(mf_plain, FALSE)>>,
                     <<Collector(mf_plain, FALSE), Collector(mf_plain, FALSE)>>,
                     <<Collector(mf_plain, TRUE)>>},
     status_codes |-> {200, 500}, redirects |-> {REDIRECTED}, history |-> TRUE]

\* The same arguments for runs in which pushes overlap.
PairInputs == [FewInputs EXCEPT !.redirects = {}, !.history = FALSE]

\* The universes by name; the state holds the name.
Drawn(universe) ==
    IF universe = "all" THEN AllInputs
    ELSE IF universe = "few" THEN FewInputs
    ELSE PairInputs

(***************************************************************************)
(* State.                                                                  *)
(***************************************************************************)
VARIABLES
    pusher,     \* the MetricsPusher: endpoint it was built from, url, metrics_converter
    pc,         \* per task: "idle", "sending" (inside the Push client) or "done"
    call,       \* per task: the push operation and its arguments
    log,        \* per task: the calls the operation has made, in order
    request,    \* per task: the HTTP request handed to the network, if any
    received,   \* per task: the response send() returned, if any
    result,     \* per task: the Result returned to the caller, if any
    inputs,     \* the name of the universe this run draws arguments and responses from
    previous    \* how the push before this one ended, where the universe keeps history

vars == <<pusher, pc, call, log, request, received, result, inputs, previous>>

NoCall == [op |-> "none"]

\* MetricsPusher::new
new(metrics_converter, url) ==
    [endpoint |-> url, metrics_converter |-> metrics_converter,
     url |-> create_metrics_job_url(url).v]

\* The state after MetricsPusher::new, with no push under way.
Constructed(converters, endpoints, tasks, universe) ==
    /\ pusher \in {new(c, e) : c \in converters, e \in endpoints}
    /\ pc = [t \in tasks |-> "idle"]
    /\ call = [t \in tasks |-> NoCall]
    /\ log = [t \in tasks |-> <<>>]
    /\ request = [t \in tasks |-> None]
    /\ received = [t \in tasks |-> None]
    /\ result = [t \in tasks |-> None]
    /\ inputs = universe
    /\ previous = "none"

Init == Constructed(Converters, Endpoints, Tasks, "all")

(***************************************************************************)
(* non_blocking.rs / blocking.rs: MetricsPusher.                           *)
(***************************************************************************)
\* Variant: the URL is kept in a place shared by the pushes in flight.
Dispatch_shares_url(t, trace, push_type, details) ==
    IF ~details.result.ok
      THEN /\ pc' = [pc EXCEPT ![t] = "done"]
           /\ log' = [log EXCEPT ![t] = trace \o <<"create_push_details">> \o details.trace]
           /\ request' = [request EXCEPT ![t] = None]
           /\ result' = [result EXCEPT ![t] = Some(details.result)]
    ELSE /\ pc' = [pc EXCEPT ![t] = "sending"]
         /\ log' = [log EXCEPT ![t] =
                       trace \o <<"create_push_details">> \o details.trace
                       \o <<IF push_type = "Add" THEN "push_add" ELSE "push_all", "send">>]
         /\ request' = [request EXCEPT ![t] =
                           Some([method |-> IF push_type = "Add" THEN "POST" ELSE "PUT",
                                 url |-> IF \E u \in DOMAIN pc : request[u].some
                                           THEN request[CHOOSE u \in DOMAIN pc :
                                                          request[u].some].v.url
                                         ELSE details.result.v.url,
                                 content_type |-> details.result.v.content_type,
                                 body |-> details.result.v.body])]
         /\ result' = [result EXCEPT ![t] = None]

\* MetricsPusher::push after create_push_details returned details: the `?`,
\* then the match on push_type and the request of the Push client.
Dispatch(t, trace, push_type, details) ==
    IF ~details.result.ok
      THEN /\ pc' = [pc EXCEPT ![t] = "done"]
           /\ log' = [log EXCEPT ![t] = trace \o <<"create_push_details">> \o details.trace]
           /\ request' = [request EXCEPT ![t] = None]
           /\ result' = [result EXCEPT ![t] = Some(details.result)]
    ELSE /\ pc' = [pc EXCEPT ![t] = "sending"]
         /\ log' = [log EXCEPT ![t] =
                       trace \o <<"create_push_details">> \o details.trace
                       \o <<IF push_type = "Add" THEN "push_add" ELSE "push_all", "send">>]
         /\ request' = [request EXCEPT ![t] =
                           Some(IF push_type = "Add"
                                  THEN PushClient_push_add(details.result.v.url,
                                                           details.result.v.body,
                                                           details.result.v.content_type)
                                ELSE PushClient_push_all(details.result.v.url,
                                                         details.result.v.body,
                                                         details.result.v.content_type))]
         /\ result' = [result EXCEPT ![t] = None]

\* Variant: the add mode leaves the grouping out of the URL.
push_add_ignores_grouping(t, trace, job, grouping, order, metrics, push_type) ==
    Dispatch(t, trace, push_type,
             create_push_details(pusher.metrics_converter, job, pusher.url,
                                 IF push_type = "Add" THEN <<>> ELSE grouping,
                                 IF push_type = "Add" THEN <<>> ELSE order, metrics))

\* MetricsPusher::push: everything up to the hand-over to the network.
push(t, trace, job, grouping, order, metrics, push_type) ==
    Dispatch(t, trace, push_type,
             create_push_details(pusher.metrics_converter, job, pusher.url,
                                 grouping, order, metrics))

\* Variant: a failure of metrics_from is dropped and an empty set is pushed.
PushCollected_ignores_failure(t, job, grouping, order, push_type, collected) ==
    push(t, <<"metrics_from">> \o collected.trace, job, grouping, order,
         collected.result.v, push_type)

\* MetricsPusher::push_collectors after metrics_from returned collected.
PushCollected(t, job, grouping, order, push_type, collected) ==
    IF ~collected.result.ok
      THEN /\ pc' = [pc EXCEPT ![t] = "done"]
           /\ log' = [log EXCEPT ![t] = <<"metrics_from">> \o collected.trace]
           /\ request' = [request EXCEPT ![t] = None]
           /\ result' = [result EXCEPT ![t] = Some(collected.result)]
    ELSE push(t, <<"metrics_from">> \o collected.trace, job, grouping, order,
              collected.result.v, push_type)

\* MetricsPusher::push_collectors
push_collectors(t, job, grouping, order, collectors, push_type) ==
    PushCollected(t, job, grouping, order, push_type,
                  metrics_from(pusher.metrics_converter, collectors))

Call(op, job, grouping, order, input) ==
    [op |-> op, job |-> job, grouping |-> grouping, order |-> order, input |-> input]

push_all(t) ==
    /\ pc[t] = "idle"
    /\ \E job \in Drawn(inputs).jobs, grouping \in Drawn(inputs).groupings,
          metrics \in Metrics(pusher.metrics_converter, Drawn(inputs).metric_sets) :
         \E order \in Perms(DOMAIN grouping) :
            /\ call' = [call EXCEPT ![t] = Call("push_all", job, grouping, order, metrics)]
            /\ push(t, <<>>, job, grouping, order, metrics, "All")
    /\ UNCHANGED <<pusher, received, inputs, previous>>

push_add(t) ==
    /\ pc[t] = "idle"
    /\ \E job \in Drawn(inputs).jobs, grouping \in Drawn(inputs).groupings,
          metrics \in Metrics(pusher.metrics_converter, Drawn(inputs).metric_sets) :
         \E order \in Perms(DOMAIN grouping) :
            /\ call' = [call EXCEPT ![t] = Call("push_add", job, grouping, order, metrics)]
            /\ push(t, <<>>, job, grouping, order, metrics, "Add")
    /\ UNCHANGED <<pusher, received, inputs, previous>>

push_all_collectors(t) ==
    /\ pc[t] = "idle"
    /\ \E job \in Drawn(inputs).jobs, grouping \in Drawn(inputs).groupings,
          collectors \in Drawn(inputs).collectors :
         \E order \in Perms(DOMAIN grouping) :
            /\ call' = [call EXCEPT ![t] =
                           Call("push_all_collectors", job, grouping, order, collectors)]
            /\ push_collectors(t, job, grouping, order, collectors, "All")
    /\ UNCHANGED <<pusher, received, inputs, previous>>

push_add_collectors(t) ==
    /\ pc[t] = "idle"
    /\ \E job \in Drawn(inputs).jobs, grouping \in Drawn(inputs).groupings,
          collectors \in Drawn(inputs).collectors :
         \E order \in Perms(DOMAIN grouping) :
            /\ call' = [call EXCEPT ![t] =
                           Call("push_add_collectors", job, grouping, order, collectors)]
            /\ push_collectors(t, job, grouping, order, collectors, "Add")
    /\ UNCHANGED <<pusher, received, inputs, previous>>

(***************************************************************************)
(* with_reqwest.rs: the outcome of send() and the classification.          *)
(***************************************************************************)
\* Variant: a failed send() is sent again.
send_error_retries(t) ==
    /\ pc[t] = "sending"
    /\ log' = [log EXCEPT ![t] = Append(@, "send")]
    /\ UNCHANGED <<pusher, pc, call, request, received, result, inputs, previous>>

\* Variant: a failed send() is classified like a response.
send_error_as_response(t) ==
    /\ pc[t] = "sending"
    /\ pc' = [pc EXCEPT ![t] = "done"]
    /\ result' = [result EXCEPT ![t] = Some(Err(response(0, request[t].v.url)))]
    /\ log' = [log EXCEPT ![t] = Append(@, "handle_response")]
    /\ UNCHANGED <<pusher, call, request, received, inputs, previous>>

\* send() returns an error: the `?` returns it, handle_response is skipped.
send_error(t) ==
    /\ pc[t] = "sending"
    /\ pc' = [pc EXCEPT ![t] = "done"]
    /\ result' = [result EXCEPT ![t] = Some(Err(FromReqwestError("send")))]
    /\ UNCHANGED <<pusher, call, log, request, received, inputs, previous>>

\* send() returns a response; its url is the URL the exchange ended at.
send_response(t) ==
    /\ pc[t] = "sending"
    /\ request[t].v.url.scheme = HTTP
    /\ \E status \in Drawn(inputs).status_codes, url \in {request[t].v.url} \cup Drawn(inputs).redirects :
          /\ received' = [received EXCEPT ![t] = Some([status |-> status, url |-> url])]
          /\ result' = [result EXCEPT ![t] =
                           Some(IF pusher.metrics_converter = "helper"
                                  THEN helper_handle_response([status |-> status, url |-> url])
                                ELSE handle_response([status |-> status, url |-> url]))]
    /\ pc' = [pc EXCEPT ![t] = "done"]
    /\ log' = [log EXCEPT ![t] = Append(@, "handle_response")]
    /\ UNCHANGED <<pusher, call, request, inputs, previous>>

\* Variant: the pusher keeps the URL of the push as its job-root URL.
return_keeps_url(t) ==
    /\ pc[t] = "done"
    /\ pc' = [pc EXCEPT ![t] = "idle"]
    /\ call' = [call EXCEPT ![t] = NoCall]
    /\ log' = [log EXCEPT ![t] = <<>>]
    /\ request' = [request EXCEPT ![t] = None]
    /\ received' = [received EXCEPT ![t] = None]
    /\ result' = [result EXCEPT ![t] = None]
    /\ previous' = IF ~Drawn(inputs).history THEN previous
                   ELSE IF result[t].v.ok THEN "Ok" ELSE result[t].v.err.kind
    /\ pusher' = [pusher EXCEPT !.url = IF request[t].some THEN request[t].v.url ELSE @]
    /\ UNCHANGED inputs

\* The caller takes the Result; the task may push again.
return(t) ==
    /\ pc[t] = "done"
    /\ pc' = [pc EXCEPT ![t] = "idle"]
    /\ call' = [call EXCEPT ![t] = NoCall]
    /\ log' = [log EXCEPT ![t] = <<>>]
    /\ request' = [request EXCEPT ![t] = None]
    /\ received' = [received EXCEPT ![t] = None]
    /\ result' = [result EXCEPT ![t] = None]
    /\ previous' = IF ~Drawn(inputs).history THEN previous
                   ELSE IF result[t].v.ok THEN "Ok" ELSE result[t].v.err.kind
    /\ UNCHANGED <<pusher, inputs>>

Next ==
    \/ \E t \in DOMAIN pc : push_all(t)
    \/ \E t \in DOMAIN pc : push_add(t)
    \/ \E t \in DOMAIN pc : push_all_collectors(t)
    \/ \E t \in DOMAIN pc : push_add_collectors(t)
    \/ \E t \in DOMAIN pc : send_error(t)
    \/ \E t \in DOMAIN pc : send_response(t)
    \/ \E t \in DOMAIN pc : return(t)

Spec == Init /\ [][Next]_vars

\* Pushers of every variant and address; one push after another.
InitVariants == Constructed(Converters \cup {"helper"}, AllEndpoints, Tasks, "few")

SpecVariants == InitVariants /\ [][Next]_vars

\* Two tasks push through the same pusher (&self) at the same time.
InitConcurrent == Constructed(Converters, Endpoints, {1, 2}, "pair")

SpecConcurrent == InitConcurrent /\ [][Next]_vars


(***************************************************************************)
(* Vocabulary of the properties.                                           *)
(***************************************************************************)
Called(t) == call[t].op # "none"

Count(s, x) == Cardinality({i \in 1..Len(s) : s[i] = x})

\* Calls recorded on the Push client.
TransportCalls(t) == Count(log[t], "push_all") + Count(log[t], "push_add")

\* Calls that serialize metrics: the protobuf encoder, the text encoder, and
\* the conversion of the text to the body.
SerializeCalls == {"encode_metrics", "encode", "text_encode", "into_bytes"}

\* The part of the log written by create_push_details and what follows it.
FromDetails(t) ==
    LET i == FirstIn(log[t], {"create_push_details"}, 1) IN Drop(log[t], i)

SlashInJobOrValue(c) ==
    \/ contains(c.job, "/")
    \/ \E n \in DOMAIN c.grouping : contains(c.grouping[n], "/")

\* The strings of a call that contain '/'.
Offending(c) ==
    {x \in {c.job} \cup DOMAIN c.grouping \cup {c.grouping[n] : n \in DOMAIN c.grouping} :
        contains(x, "/")}

Failed(t, kind) ==
    /\ pc[t] = "done"
    /\ result[t].some
    /\ ~result[t].v.ok
    /\ result[t].v.err.kind = kind

C2_SlashInNameCitesOffender ==
    \A t \in DOMAIN pc :
        (Called(t) /\ "validate" \in Range(log[t]) /\ Offending(call[t]) # {}) =>
            /\ Failed(t, "SlashInName")
            /\ \E x \in Offending(call[t]) :
                  result[t].v.err.message =
                      <<"labels and job name must not contain '/': '">> \o x \o <<"'">>

C2_Witness ==
    \E t \in DOMAIN pc :
        /\ Called(t)
        /\ Failed(t, "SlashInName")
        /\ ~contains(call[t].job, "/")
        /\ \E n \in DOMAIN call[t].grouping :
              /\ ~contains(n, "/")
              /\ result[t].v.err.message =
                    <<"labels and job name must not contain '/': '">>
                    \o call[t].grouping[n] \o <<"'">>


(***************************************************************************)
(* More vocabulary: the metric set of a call and what it carries.          *)
(***************************************************************************)
Prometheus == pusher.metrics_converter = "PrometheusMetricsConverter"

CollectorOp(t) == call[t].op \in {"push_all_collectors", "push_add_collectors"}

\* The metric set pushed by the call: its argument, or what metrics_from
\* made of the collectors (empty when metrics_from failed).
MetricSetOf(t) ==
    IF CollectorOp(t)
      THEN metrics_from(pusher.metrics_converter, call[t].input).result.v
    ELSE call[t].input

\* The label names carried by the metrics of a family / of a text line.
FamilyLabelNames(mf) == {AllLabels(mf)[i].name : i \in 1..Len(AllLabels(mf))}
LineLabelNames(l) == {l.label[i].name : i \in 1..Len(l.label)}

LabelNamesOf(t) ==
    IF Prometheus
      THEN UNION {FamilyLabelNames(MetricSetOf(t)[i]) : i \in 1..Len(MetricSetOf(t))}
    ELSE UNION {LineLabelNames(MetricSetOf(t)[i]) : i \in 1..Len(MetricSetOf(t))}

Reserved(c) == {LABEL_NAME_JOB} \cup DOMAIN c.grouping

\* metrics_from fails on these collectors.
CollectFails(t) ==
    /\ CollectorOp(t)
    /\ IF Prometheus
         THEN \E i, j \in 1..Len(call[t].input) :
                 i < j /\ call[t].input[i].family.name = call[t].input[j].family.name
       ELSE \E i \in 1..Len(call[t].input) : call[t].input[i].fmt_error

\* The encoder rejects family i, and no family up to i has a label conflict.
EncodeFailsAt(t, i) ==
    /\ Prometheus
    /\ MetricSetOf(t)[i].metric = <<>>
    /\ \A j \in 1..i : FamilyLabelNames(MetricSetOf(t)[j]) \cap Reserved(call[t]) = {}

\* job-root path, job, then name and value of every pair, as path segments.
ExpectedPath(c) ==
    path(pusher.url) \o c.job
    \o Flatten([i \in 1..Len(c.order) |->
                  <<"/">> \o c.order[i] \o <<"/">> \o c.grouping[c.order[i]]])

(***************************************************************************)
(* C3.  A metric set containing a metric with a label named "job" makes    *)
(* the push fail with AlreadyContainsLabel before any encode call and      *)
(* before any call of the Push client, for every family position and for   *)
(* both converters.                                                        *)
(***************************************************************************)
C3_JobLabelRejectedFirst ==
    \A t \in DOMAIN pc :
        (Called(t) /\ Offending(call[t]) = {} /\ ~CollectFails(t)
            /\ LABEL_NAME_JOB \in LabelNamesOf(t)) =>
            /\ Failed(t, "AlreadyContainsLabel")
            /\ "encode" \notin Range(log[t])
            /\ TransportCalls(t) = 0

(***************************************************************************)
(* C4.  A metric set containing a metric with a label whose name is a key  *)
(* of the grouping map makes the push fail with AlreadyContainsLabel, and  *)
(* the Push client is never called.                                        *)
(***************************************************************************)
C4_GroupingLabelRejected ==
    \A t \in DOMAIN pc :
        (Called(t) /\ Offending(call[t]) = {} /\ ~CollectFails(t)
            /\ LabelNamesOf(t) \cap DOMAIN call[t].grouping # {}) =>
            /\ Failed(t, "AlreadyContainsLabel")
            /\ TransportCalls(t) = 0
            /\ ~request[t].some

(***************************************************************************)
(* C5.  For valid inputs (no '/' in job or grouping, no label conflict,    *)
(* encoding succeeds) push_all makes exactly one push_all call (PUT) and   *)
(* no push_add call, push_add exactly one push_add call (POST) and no      *)
(* push_all call; URL, body and content type are those of                  *)
(* create_push_details, which does not see the push type.                  *)
(***************************************************************************)
ValidInput(t) ==
    /\ Offending(call[t]) = {}
    /\ ~CollectFails(t)
    /\ LabelNamesOf(t) \cap Reserved(call[t]) = {}
    /\ \A i \in 1..Len(MetricSetOf(t)) : ~EncodeFailsAt(t, i)

Replace(t) == call[t].op \in {"push_all", "push_all_collectors"}

C5_ValidInputOneCall ==
    \A t \in DOMAIN pc :
        (Called(t) /\ ValidInput(t)) =>
            /\ Count(log[t], "push_all") = (IF Replace(t) THEN 1 ELSE 0)
            /\ Count(log[t], "push_add") = (IF Replace(t) THEN 0 ELSE 1)
            /\ request[t].some
            /\ request[t].v.method = (IF Replace(t) THEN "PUT" ELSE "POST")
            /\ [url |-> request[t].v.url, body |-> request[t].v.body,
                content_type |-> request[t].v.content_type]
               = create_push_details(pusher.metrics_converter, call[t].job, pusher.url,
                                     call[t].grouping, call[t].order,
                                     MetricSetOf(t)).result.v

(***************************************************************************)
(* C6.  When no string of job and grouping contains '/', URL building      *)
(* succeeds and the path of the URL is the job-root path followed by the   *)
(* job name and then name and value of every grouping pair.                *)
(***************************************************************************)
C6_PathIsRootJobPairs ==
    \A t \in DOMAIN pc :
        (Called(t) /\ Offending(call[t]) = {} /\ "build_url" \in Range(log[t])) =>
            /\ build_url(pusher.url, call[t].job, call[t].grouping, call[t].order).ok
            /\ path(build_url(pusher.url, call[t].job, call[t].grouping,
                              call[t].order).v) = ExpectedPath(call[t])
            /\ ~Failed(t, "Url")
            /\ request[t].some => path(request[t].v.url) = ExpectedPath(call[t])

(***************************************************************************)
(* C7.  A response with status 200 or 202 makes the push succeed; every    *)
(* other status makes it fail with a Response error that carries the       *)
(* status code and the URL of the response, which is the URL the exchange  *)
(* ended at (the request URL unless the exchange was redirected).          *)
(***************************************************************************)
ResponseMessage(status, url) ==
    <<"unexpected status code ", status, " while pushing to ">> \o as_str(url)

C7_ResponseClassified ==
    \A t \in DOMAIN pc :
        received[t].some =>
            /\ pc[t] = "done"
            /\ result[t].some
            /\ IF received[t].v.status \in {200, 202}
                 THEN result[t].v = Ok(<<>>)
               ELSE /\ ~result[t].v.ok
                    /\ result[t].v.err =
                         [kind |-> "Response",
                          message |-> ResponseMessage(received[t].v.status,
                                                      received[t].v.url)]

\* C7 as written: the error carries the URL the request was sent to.
C7_ErrorCarriesRequestUrl ==
    \A t \in DOMAIN pc :
        (received[t].some /\ received[t].v.status \notin {200, 202}) =>
            /\ Failed(t, "Response")
            /\ result[t].v.err.message =
                 ResponseMessage(received[t].v.status, request[t].v.url)

C7_Witness ==
    \E t \in DOMAIN pc :
        /\ received[t].some
        /\ received[t].v.status = 201
        /\ received[t].v.url = request[t].v.url
        /\ Failed(t, "Response")

(***************************************************************************)
(* C8.  No partial payload: a push that fails with a label conflict or an  *)
(* encoding failure sends nothing, also when earlier families were already *)
(* serialized; a request that is sent carries the whole metric set.        *)
(***************************************************************************)
WholeBody(t) ==
    IF Prometheus
      THEN /\ Len(request[t].v.body) = Len(MetricSetOf(t))
           /\ \A i \in 1..Len(MetricSetOf(t)) :
                 request[t].v.body[i] = [delimited |-> MetricSetOf(t)[i]]
    ELSE request[t].v.body = MetricSetOf(t)

C8_NoPartialPayload ==
    \A t \in DOMAIN pc :
        /\ (Failed(t, "AlreadyContainsLabel") \/ Failed(t, "Prometheus")
               \/ Failed(t, "Fmt")) =>
              TransportCalls(t) = 0 /\ ~request[t].some /\ ~received[t].some
        /\ (Called(t) /\ Prometheus
               /\ LabelNamesOf(t) \cap Reserved(call[t]) # {}) => ~request[t].some
        /\ request[t].some => WholeBody(t)

C8_Witness ==
    \E t \in DOMAIN pc :
        /\ Failed(t, "AlreadyContainsLabel")
        /\ "encode" \in Range(log[t])
        /\ TransportCalls(t) = 0

(***************************************************************************)
(* C9.  A failure of metrics_from is returned to the caller and nothing    *)
(* later runs: no push details are built and no transport call is made.    *)
(* A failure of the encoder is returned and no transport call is made.     *)
(***************************************************************************)
C9_FailureShortCircuits ==
    \A t \in DOMAIN pc :
        /\ (Called(t) /\ CollectFails(t)) =>
              /\ pc[t] = "done"
              /\ result[t] = Some(metrics_from(pusher.metrics_converter,
                                               call[t].input).result)
              /\ ~result[t].v.ok
              /\ result[t].v.err.kind \in {"Prometheus", "Fmt"}
              /\ "create_push_details" \notin Range(log[t])
              /\ TransportCalls(t) = 0
              /\ ~request[t].some
        /\ (Called(t) /\ "encode_metrics" \in Range(log[t])
               /\ \E i \in 1..Len(MetricSetOf(t)) : EncodeFailsAt(t, i)) =>
              /\ Failed(t, "Prometheus")
              /\ log[t][Len(log[t])] = "encode"
              /\ TransportCalls(t) = 0
              /\ ~request[t].some

C9_Witness ==
    \E t \in DOMAIN pc :
        /\ Called(t)
        /\ CollectFails(t)
        /\ Failed(t, "Prometheus")
        /\ log[t] = <<"metrics_from", "register">>

TaggedErrors ==
    {"SlashInName", "AlreadyContainsLabel", "Prometheus", "Fmt", "Response", "Reqwest"}

TransportResult(t) ==
    IF received[t].some THEN handle_response(received[t].v)
    ELSE Err(FromReqwestError("send"))

C11_OneTerminalState ==
    \A t \in DOMAIN pc :
        pc[t] = "done" =>
            /\ result[t].some
            /\ result[t].v.ok \/ result[t].v.err.kind \in TaggedErrors
            /\ result[t].v.ok => result[t].v.err = NoError
            /\ request[t].some => result[t].v = TransportResult(t)
            /\ TransportCalls(t) <= 1

(***************************************************************************)
(* C12.  No cross-call state: whatever pushes came before and however they *)
(* ended, the pusher holds the job-root URL derived at construction, and   *)
(* the request and the result of a push are those its own arguments and    *)
(* the response to it give; the body is encoded from this call's metrics.  *)
(***************************************************************************)
Collected(t) ==
    IF CollectorOp(t) THEN metrics_from(pusher.metrics_converter, call[t].input).result
    ELSE Ok(call[t].input)

\* What the transport returns for the response, or for the lack of one.
Classified(t) ==
    IF ~received[t].some THEN Err(FromReqwestError("send"))
    ELSE IF pusher.metrics_converter = "helper" THEN helper_handle_response(received[t].v)
    ELSE handle_response(received[t].v)

RequestOf(t, details) ==
    [method |-> IF Replace(t) THEN "PUT" ELSE "POST", url |-> details.url,
     content_type |-> details.content_type, body |-> details.body]

\* own: the push details of the arguments of t on a pusher fresh from new.
OwnOutcome(t, collected, own) ==
    IF ~collected.ok
      THEN pc[t] = "done" /\ result[t] = Some(collected) /\ ~request[t].some
    ELSE IF ~own.ok
      THEN pc[t] = "done" /\ result[t] = Some(own) /\ ~request[t].some
    ELSE /\ request[t] = Some(RequestOf(t, own.v))
         /\ pc[t] = "sending" => ~result[t].some
         /\ pc[t] = "done" => result[t] = Some(Classified(t))

C12_NoCrossCallState ==
    /\ pusher = new(pusher.metrics_converter, pusher.endpoint)
    /\ \A t \in DOMAIN pc :
          Called(t) =>
             OwnOutcome(t, Collected(t),
                        create_push_details(pusher.metrics_converter, call[t].job,
                                            create_metrics_job_url(pusher.endpoint).v,
                                            call[t].grouping, call[t].order,
                                            Collected(t).v).result)

C12_Witness ==
    \E t \in DOMAIN pc :
        /\ previous = "Response"
        /\ pc[t] = "done"
        /\ request[t].some
        /\ Len(request[t].v.body) > 0
        /\ result[t].v.ok

(***************************************************************************)
(* C13.  Pushes that run at the same time on one pusher do not mix: under  *)
(* every interleaving the request of each task carries the URL, body and   *)
(* content type of that task's own job, grouping and metric set, and each  *)
(* task gets the result it would get alone for the same response.          *)
(***************************************************************************)
OwnDetails(t) ==
    create_push_details(pusher.metrics_converter, call[t].job, pusher.url,
                        call[t].grouping, call[t].order, Collected(t).v).result

Alone(t, collected, own) ==
    IF ~collected.ok THEN collected
    ELSE IF ~own.ok THEN own
    ELSE Classified(t)

C13_ConcurrentPushesDoNotMix ==
    \A t \in DOMAIN pc :
        Called(t) =>
            /\ request[t].some =>
                  /\ Collected(t).ok /\ OwnDetails(t).ok
                  /\ request[t].v.url = OwnDetails(t).v.url
                  /\ request[t].v.body = OwnDetails(t).v.body
                  /\ request[t].v.content_type = OwnDetails(t).v.content_type
            /\ pc[t] = "done" => result[t] = Some(Alone(t, Collected(t), OwnDetails(t)))
            /\ (~request[t].some /\ pc[t] = "done") =>
                  ~(Collected(t).ok /\ OwnDetails(t).ok)

C13_Witness ==
    \E t, u \in DOMAIN pc :
        /\ t # u
        /\ pc[t] = "sending" /\ pc[u] = "sending"
        /\ request[t].v.url # request[u].v.url
        /\ request[t].v.body # request[u].v.body
        /\ request[t].v.method # request[u].v.method

(***************************************************************************)
(* C14.  The job-root URL held by the pusher is the base URL followed by   *)
(* "metrics/job/", i.e. <base>/metrics/job/, also for a base URL whose     *)
(* path is not empty and does not end in '/'.                              *)
(***************************************************************************)
EndsInSlash(s) == Len(s) > 0 /\ s[Len(s)] = "/"

BaseThenJobPath(base) ==
    (IF EndsInSlash(as_str(base)) THEN as_str(base) ELSE as_str(base) \o <<"/">>)
    \o METRICS_JOB_PATH

C14_JobRootIsBaseThenJobPath ==
    /\ create_metrics_job_url(pusher.endpoint).ok
    /\ as_str(pusher.url) = BaseThenJobPath(pusher.endpoint)

(***************************************************************************)
(* C15.  "job" may be a grouping label name: a push whose grouping has the *)
(* key "job" and whose metrics carry no reserved label does not fail with  *)
(* AlreadyContainsLabel, and it is sent when nothing else fails.  Only the *)
(* labels of metrics are compared with the reserved names.                 *)
(***************************************************************************)
C15_GroupingMayUseJob ==
    \A t \in DOMAIN pc :
        Called(t) =>
            /\ Failed(t, "AlreadyContainsLabel") =>
                  LabelNamesOf(t) \cap Reserved(call[t]) # {}
            /\ (LABEL_NAME_JOB \in DOMAIN call[t].grouping
                   /\ LabelNamesOf(t) \cap Reserved(call[t]) = {}
                   /\ Collected(t).ok
                   /\ "encode_metrics" \in Range(log[t])
                   /\ \A i \in 1..Len(MetricSetOf(t)) : ~EncodeFailsAt(t, i)) =>
                  request[t].some /\ TransportCalls(t) = 1

C15_Witness ==
    \E t \in DOMAIN pc :
        /\ Prometheus
        /\ Called(t)
        /\ DOMAIN call[t].grouping = {LABEL_NAME_JOB}
        /\ call[t].op = "push_all"
        /\ call[t].input = <<mf_plain>>
        /\ pc[t] = "done"
        /\ result[t].v.ok
        /\ path(request[t].v.url)
             = path(pusher.url) \o call[t].job \o <<"/">> \o LABEL_NAME_JOB \o <<"/", "v">>

(***************************************************************************)
(* C16.  The content type of every request is the MIME type of the encoder *)
(* that produced its body: the format_type of the protobuf encoder for a   *)
(* body of length-delimited families, "text/plain" for a body of text      *)
(* lines, for PUT and for POST.                                            *)
(***************************************************************************)
Delimited(body) == \A i \in 1..Len(body) : "delimited" \in DOMAIN body[i]
TextLines(body) == \A i \in 1..Len(body) : "line" \in DOMAIN body[i]

C16_ContentTypeOfEncoder ==
    \A t \in DOMAIN pc :
        request[t].some =>
            /\ request[t].v.method \in {"PUT", "POST"}
            /\ IF Prometheus
                 THEN /\ Delimited(request[t].v.body)
                      /\ request[t].v.content_type = PROTOBUF_FORMAT
               ELSE /\ TextLines(request[t].v.body)
                    /\ request[t].v.content_type = "text/plain"

C16_Witness ==
    \E t \in DOMAIN pc :
        /\ request[t].some
        /\ request[t].v.method = "POST"
        /\ Len(request[t].v.body) = 2
        /\ Delimited(request[t].v.body)
        /\ request[t].v.content_type = PROTOBUF_FORMAT

(***************************************************************************)
(* C17.  For a valid job, a grouping of one pair and a metric set without  *)
(* conflict, push_all hands over exactly one PUT whose path is             *)
(* /metrics/job/<job>/<name>/<value> and whose body is the encoding of the *)
(* whole family list, family by family in input order, and the push        *)
(* returns Ok when the gateway answers 200.                                *)
(***************************************************************************)
OnePair(c) == Cardinality(DOMAIN c.grouping) = 1

GroupingPath(c) ==
    <<"/">> \o METRICS_JOB_PATH \o c.job \o <<"/">> \o c.order[1]
    \o <<"/">> \o c.grouping[c.order[1]]

C17_OnePutAtGroupingPath ==
    \A t \in DOMAIN pc :
        (Called(t) /\ call[t].op = "push_all" /\ call[t].job # <<>>
            /\ Offending(call[t]) = {} /\ OnePair(call[t])
            /\ LabelNamesOf(t) \cap Reserved(call[t]) = {}
            /\ \A i \in 1..Len(MetricSetOf(t)) : ~EncodeFailsAt(t, i)) =>
            /\ request[t].some
            /\ request[t].v.method = "PUT"
            /\ Count(log[t], "push_all") = 1 /\ Count(log[t], "push_add") = 0
            /\ path(request[t].v.url) = GroupingPath(call[t])
            /\ WholeBody(t)
            /\ (received[t].some /\ received[t].v.status = 200) => result[t].v.ok

(***************************************************************************)
(* C18.  Grouping label names are validated like the values: a push that   *)
(* gets as far as URL building with a label name containing '/' fails with *)
(* the invalid-name error of its variant (SlashInName; Generic in          *)
(* helper.rs) and makes no transport call, in every variant of the URL     *)
(* builder.                                                                *)
(***************************************************************************)
SlashInLabelName(c) == \E n \in DOMAIN c.grouping : contains(n, "/")

C18_LabelNamesValidated ==
    \A t \in DOMAIN pc :
        (Called(t) /\ "validate" \in Range(log[t]) /\ SlashInLabelName(call[t])) =>
            /\ pc[t] = "done"
            /\ ~result[t].v.ok
            /\ result[t].v.err.kind \in {"SlashInName", "Generic"}
            /\ TransportCalls(t) = 0
            /\ ~request[t].some

(***************************************************************************)
(* C19.  When send() itself fails (a request was made and no response came *)
(* back) the push returns the Reqwest error that wraps the failure;        *)
(* handle_response is not run and the outcome is neither a Response error  *)
(* nor success.                                                            *)
(***************************************************************************)
SendFailed(t) == pc[t] = "done" /\ request[t].some /\ ~received[t].some

C19_SendErrorIsTransportError ==
    \A t \in DOMAIN pc :
        SendFailed(t) =>
            /\ result[t] = Some(Err(FromReqwestError("send")))
            /\ result[t].v.err.kind = "Reqwest"
            /\ "handle_response" \notin Range(log[t])
            /\ log[t][Len(log[t])] = "send"

C19_Witness ==
    \E t \in DOMAIN pc :
        /\ SendFailed(t)
        /\ request[t].v.method = "PUT"
        /\ Failed(t, "Reqwest")

(***************************************************************************)
(* C20.  The stages run in the order Validate (label conflicts of the      *)
(* whole metric set), BuildURL, Encode, Transmit, Classify.  So a metric   *)
(* set with a label conflict fails with AlreadyContainsLabel before the    *)
(* URL is built and before anything is encoded, also when the job or the   *)
(* grouping contains '/' and also when an earlier family cannot be         *)
(* encoded.                                                                *)
(***************************************************************************)
ConflictAfterEncodeFailure(t) ==
    \E i, j \in 1..Len(MetricSetOf(t)) :
        /\ i < j
        /\ MetricSetOf(t)[i].metric = <<>>
        /\ FamilyLabelNames(MetricSetOf(t)[j]) \cap Reserved(call[t]) # {}

C20_ConflictReportedFirst ==
    \A t \in DOMAIN pc :
        (Called(t) /\ Prometheus /\ ~CollectFails(t)
            /\ LabelNamesOf(t) \cap Reserved(call[t]) # {}
            /\ (Offending(call[t]) # {} \/ ConflictAfterEncodeFailure(t))) =>
            /\ Failed(t, "AlreadyContainsLabel")
            /\ "build_url" \notin Range(log[t])
            /\ "encode" \notin Range(log[t])

(***************************************************************************)
(* C21.  The push mode decides the HTTP method and nothing else: two       *)
(* pushes with the same job, grouping and metrics, one replacing and one   *)
(* adding, make the same calls before the transport; either both fail      *)
(* there with the same error, or both hand over a request with the same    *)
(* URL, body and content type, one by push_all as PUT and one by push_add  *)
(* as POST.                                                                *)
(***************************************************************************)
TransportEvents == {"push_all", "push_add", "send", "handle_response"}

BeforeTransport(t) == SelectSeq(log[t], LAMBDA e : e \notin TransportEvents)

SameButMode(t, u) ==
    /\ Called(t) /\ Called(u)
    /\ Replace(t) /\ ~Replace(u)
    /\ CollectorOp(t) = CollectorOp(u)
    /\ call[t].job = call[u].job
    /\ call[t].grouping = call[u].grouping
    /\ call[t].order = call[u].order
    /\ call[t].input = call[u].input

C21_ModeDecidesMethodOnly ==
    \A t, u \in DOMAIN pc :
        SameButMode(t, u) =>
            /\ BeforeTransport(t) = BeforeTransport(u)
            /\ request[t].some = request[u].some
            /\ ~request[t].some =>
                  /\ pc[t] = "done" /\ pc[u] = "done"
                  /\ result[t] = result[u]
                  /\ TransportCalls(t) = 0 /\ TransportCalls(u) = 0
            /\ request[t].some =>
                  /\ request[t].v.url = request[u].v.url
                  /\ request[t].v.body = request[u].v.body
                  /\ request[t].v.content_type = request[u].v.content_type
                  /\ request[t].v.method = "PUT" /\ request[u].v.method = "POST"
                  /\ Count(log[t], "push_all") = 1 /\ Count(log[t], "push_add") = 0
                  /\ Count(log[u], "push_add") = 1 /\ Count(log[u], "push_all") = 0

C21_Witness ==
    \E t, u \in DOMAIN pc :
        /\ SameButMode(t, u)
        /\ DOMAIN call[t].grouping # {}
        /\ request[t].some /\ request[u].some
        /\ Len(request[t].v.body) > 0
        /\ request[t].v.method = "PUT" /\ request[u].v.method = "POST"

C21_WitnessFailure ==
    \E t, u \in DOMAIN pc :
        /\ SameButMode(t, u)
        /\ Failed(t, "SlashInName") /\ Failed(u, "SlashInName")

(***************************************************************************)
(* C22.  URL building depends on the grouping as a mapping only: for the   *)
(* same job root, job and name->value pairs, whatever order the map hands  *)
(* out its pairs in, build_url returns the same URL path.                  *)
(***************************************************************************)
SamePathInOrder(t, built) ==
    built.ok /\ path(built.v) = path(request[t].v.url)

C22_PathIndependentOfOrder ==
    \A t \in DOMAIN pc :
        (Called(t) /\ request[t].some) =>
            \A other \in Perms(DOMAIN call[t].grouping) :
                SamePathInOrder(t, build_url(pusher.url, call[t].job,
                                             call[t].grouping, other))

(***************************************************************************)
(* C23.  The label check stops at the first offending label, families in   *)
(* input order, then metrics, then labels: the AlreadyContainsLabel error  *)
(* names the family of that label and the kind of conflict (the job label, *)
(* or the grouping label by its name); the families before it have been    *)
(* encoded, that family and the ones after it have not.                    *)
(***************************************************************************)
OffendingFamily(t, i) == FamilyLabelNames(MetricSetOf(t)[i]) \cap Reserved(call[t]) # {}

FirstOffendingFamily(t) ==
    CHOOSE i \in 1..Len(MetricSetOf(t)) :
        OffendingFamily(t, i) /\ \A j \in 1..(i - 1) : ~OffendingFamily(t, j)

FirstOffendingLabel(c, labels) ==
    labels[CHOOSE k \in 1..Len(labels) :
              /\ labels[k].name \in Reserved(c)
              /\ \A j \in 1..(k - 1) : labels[j].name \notin Reserved(c)].name

ConflictOf(metric_family, name) ==
    contains_label(metric_family.name,
                   IF name = LABEL_NAME_JOB THEN LabelTypeJob ELSE LabelTypeGrouping(name))

ExpectedConflict(t, mf) ==
    ConflictOf(mf, FirstOffendingLabel(call[t], AllLabels(mf)))

ValidationOrder(c) ==
    [i \in 1..(2 * Len(c.order) + 1) |->
        IF i = 1 THEN c.job
        ELSE IF i % 2 = 0 THEN c.order[i \div 2]
        ELSE c.grouping[c.order[(i - 1) \div 2]]]

FirstWithSlash(strings) ==
    strings[CHOOSE i \in 1..Len(strings) :
               /\ contains(strings[i], "/")
               /\ \A j \in 1..(i - 1) : ~contains(strings[j], "/")]

C25_ValidationOrder ==
    \A t \in DOMAIN pc :
        Failed(t, "SlashInName") =>
            /\ Offending(call[t]) # {}
            /\ result[t].v.err = slash_in_name(FirstWithSlash(ValidationOrder(call[t])))

\* A clean job, and a pair whose name and value both contain '/'.
C25_Witness ==
    \E t \in DOMAIN pc :
        /\ Failed(t, "SlashInName")
        /\ ~contains(call[t].job, "/")
        /\ \E n \in DOMAIN call[t].grouping :
              /\ contains(n, "/")
              /\ contains(call[t].grouping[n], "/")
              /\ result[t].v.err = slash_in_name(n)

\* A job and a grouping that both contain '/': the job is cited.
C25_WitnessJobFirst ==
    \E t \in DOMAIN pc :
        /\ Failed(t, "SlashInName")
        /\ contains(call[t].job, "/")
        /\ SlashInLabelName(call[t])
        /\ result[t].v.err = slash_in_name(call[t].job)

(***************************************************************************)
(* C26.  The job-label check takes precedence over the grouping-label      *)
(* check: when the grouping has the key "job", a metric label named "job"  *)
(* is never reported as a grouping-label conflict, and when that label is  *)
(* the first offending one the error is the job-label conflict of its      *)
(* family.                                                                 *)
(***************************************************************************)
JobIsGroupingKey(t) == Called(t) /\ LABEL_NAME_JOB \in DOMAIN call[t].grouping

JobLabelHitFirst(t) ==
    /\ \E i \in 1..Len(MetricSetOf(t)) : OffendingFamily(t, i)
    /\ FirstOffendingLabel(call[t], AllLabels(MetricSetOf(t)[FirstOffendingFamily(t)]))
         = LABEL_NAME_JOB

C26_JobCheckPrecedes ==
    \A t \in DOMAIN pc :
        (JobIsGroupingKey(t) /\ Failed(t, "AlreadyContainsLabel")) =>
            /\ \A i \in 1..Len(MetricSetOf(t)) :
                  result[t].v.err # contains_label(MetricSetOf(t)[i].name,
                                                   LabelTypeGrouping(LABEL_NAME_JOB))
            /\ JobLabelHitFirst(t) =>
                  result[t].v.err = contains_label(MetricSetOf(t)[FirstOffendingFamily(t)].name,
                                                   LabelTypeJob)

C26_Witness ==
    \E t \in DOMAIN pc :
        /\ JobIsGroupingKey(t)
        /\ Failed(t, "AlreadyContainsLabel")
        /\ JobLabelHitFirst(t)
        /\ result[t].v.err = contains_label(MetricSetOf(t)[1].name, LabelTypeJob)

(***************************************************************************)
(* C27.  The prometheus-client converter inspects no label: for every      *)
(* metrics text create_push_details succeeds exactly when the job and the  *)
(* names and values of the grouping contain no '/', and then the body      *)
(* handed to the transport is the input text and the content type is       *)
(* "text/plain", also when the text has a job label or a label named like  *)
(* a grouping key.                                                         *)
(***************************************************************************)
ClientPush(t) == Called(t) /\ pusher.metrics_converter = "PrometheusClientMetricsConverter" /\ ~CollectorOp(t)

C27_ClientSucceedsIffNoSlash ==
    \A t \in DOMAIN pc :
        ClientPush(t) =>
            /\ (Offending(call[t]) = {})
                 <=> create_push_details(pusher.metrics_converter, call[t].job, pusher.url,
                                         call[t].grouping, call[t].order,
                                         call[t].input).result.ok
            /\ Offending(call[t]) = {} =>
                  /\ pc[t] = "sending" => request[t].some
                  /\ ~Failed(t, "Url")
                  /\ ~Failed(t, "SlashInName")
                  /\ ~Failed(t, "AlreadyContainsLabel")
            /\ request[t].some =>
                  /\ request[t].v.body = call[t].input
                  /\ request[t].v.content_type = "text/plain"

(***************************************************************************)
(* C28.  An empty metric set is not an error: a push of an empty family    *)
(* list with a valid job and a valid grouping passes validation and        *)
(* encoding and makes exactly one transport call, whose body is empty and  *)
(* whose URL is the one a push of a non-empty list would use.              *)
(***************************************************************************)
EmptyPush(t) ==
    /\ Called(t) /\ Prometheus /\ ~CollectorOp(t)
    /\ call[t].input = <<>>
    /\ call[t].job # <<>>
    /\ Offending(call[t]) = {}

C28_EmptySetIsPushed ==
    \A t \in DOMAIN pc :
        EmptyPush(t) =>
            /\ TransportCalls(t) = 1
            /\ ~Failed(t, "Url") /\ ~Failed(t, "Prometheus")
            /\ "encode_metrics" \in Range(log[t])
            /\ pc[t] = "sending" =>
                  /\ request[t].some
                  /\ request[t].v.body = <<>>
                  /\ request[t].v.url
                       = create_push_details(pusher.metrics_converter, call[t].job,
                                             pusher.url, call[t].grouping, call[t].order,
                                             <<mf_plain>>).result.v.url

(***************************************************************************)
(* non_blocking.rs: the futures of the asynchronous pusher, step by step.  *)
(* Tasks of one executor thread share the pusher.  A task that is polled   *)
(* runs until its future returns Pending or Ready; the thread polls no     *)
(* other task meanwhile.  pc = "polled" is a task whose push runs, its log *)
(* the calls made so far; pc = "sending" is a task whose future returned   *)
(* Pending at send().await.                                                *)
(***************************************************************************)
Polling(t) == pc[t] \in {"polled", "yielded"}

\* The thread is free to poll task t.
Free(t) == \A u \in DOMAIN pc \ {t} : pc[u] # "polled"

PushTypeOf(c) == IF c.op \in {"push_all", "push_all_collectors"} THEN "All" ELSE "Add"

\* The calls of create_push_details for the metrics of call c.
DetailsTrace(c, metrics) ==
    <<"create_push_details">>
    \o create_push_details(pusher.metrics_converter, c.job, pusher.url,
                           c.grouping, c.order, metrics).trace

\* The calls of push_collectors after metrics_from returned collected.
CollectedTrace(c, collected) ==
    <<"metrics_from">> \o collected.trace
    \o (IF collected.result.ok THEN DetailsTrace(c, collected.result.v) ELSE <<>>)

\* The calls a push makes before it returns an error or reaches the match
\* on push_type.
SyncTrace(c) ==
    IF c.op \in {"push_all_collectors", "push_add_collectors"}
      THEN CollectedTrace(c, metrics_from(pusher.metrics_converter, c.input))
    ELSE DetailsTrace(c, c.input)

\* One of the four async fns is called and its future polled for the first
\* time: the body starts to run.
async_call(t) ==
    /\ pc[t] = "idle"
    /\ Free(t)
    /\ \E job \in Drawn(inputs).jobs, grouping \in Drawn(inputs).groupings,
          op \in {"push_all", "push_add", "push_all_collectors", "push_add_collectors"} :
         \E order \in Perms(DOMAIN grouping),
            input \in IF op \in {"push_all", "push_add"}
                        THEN Metrics(pusher.metrics_converter, Drawn(inputs).metric_sets)
                      ELSE Drawn(inputs).collectors :
            call' = [call EXCEPT ![t] = Call(op, job, grouping, order, input)]
    /\ pc' = [pc EXCEPT ![t] = "polled"]
    /\ UNCHANGED <<pusher, log, request, received, result, inputs, previous>>

\* Variant: the future returns Pending after every call it makes.
async_step_yields(t) ==
    /\ Polling(t)
    /\ Free(t)
    /\ Len(log[t]) < Len(SyncTrace(call[t]))
    /\ log' = [log EXCEPT ![t] = Append(@, SyncTrace(call[t])[Len(@) + 1])]
    /\ pc' = [pc EXCEPT ![t] = IF @ = "polled" THEN "yielded" ELSE "polled"]
    /\ UNCHANGED <<pusher, call, request, received, result, inputs, previous>>

\* The next call of the body: none of them is an await.
async_step(t) ==
    /\ pc[t] = "polled"
    /\ Len(log[t]) < Len(SyncTrace(call[t]))
    /\ log' = [log EXCEPT ![t] = Append(@, SyncTrace(call[t])[Len(@) + 1])]
    /\ UNCHANGED <<pusher, pc, call, request, received, result, inputs, previous>>

\* The `?` returns the error (Ready), or the request is handed to the Push
\* client and send().await returns Pending.
async_hand_off(t) ==
    /\ pc[t] = "polled"
    /\ log[t] = SyncTrace(call[t])
    /\ IF call[t].op \in {"push_all_collectors", "push_add_collectors"}
         THEN push_collectors(t, call[t].job, call[t].grouping, call[t].order,
                              call[t].input, PushTypeOf(call[t]))
       ELSE push(t, <<>>, call[t].job, call[t].grouping, call[t].order,
                 call[t].input, PushTypeOf(call[t]))
    /\ UNCHANGED <<pusher, call, received, inputs, previous>>

\* The task is woken and polled again: send() has returned.
async_send_error(t) == Free(t) /\ send_error(t)

async_send_response(t) == Free(t) /\ send_response(t)

async_return(t) == Free(t) /\ return(t)

NextAsync ==
    \/ \E t \in DOMAIN pc : async_call(t)
    \/ \E t \in DOMAIN pc : async_step(t)
    \/ \E t \in DOMAIN pc : async_hand_off(t)
    \/ \E t \in DOMAIN pc : async_send_error(t)
    \/ \E t \in DOMAIN pc : async_send_response(t)
    \/ \E t \in DOMAIN pc : async_return(t)

SpecAsync == InitConcurrent /\ [][NextAsync]_vars

(***************************************************************************)
(* C24.  In the asynchronous pusher a push suspends only at the network    *)
(* call of the transport: from the start of its validation until it has    *)
(* handed the request to the transport (or returned an error) no other     *)
(* task takes a step, and the log of the push at the hand-over holds all   *)
(* its calls to validate, build_url and the encoder (and metrics_from).    *)
(***************************************************************************)
InSyncSection(t) == Called(t) /\ pc[t] \notin {"sending", "done"}

OfTask(u) == <<pc[u], call[u], log[u], request[u], received[u], result[u]>>

====
